---- MODULE Spec2Model ----
(***************************************************************************)
(* HueGraph: the clustering worker (workers/clusterWorker, the second half *)
(* of src/src/components/PieChartWindow.tsx) composed with the UI that     *)
(* drives it (src/src/App.tsx, src/unnamed/part_003).                      *)
(*                                                                         *)
(* The UI and the worker are two threads that share nothing but two FIFO   *)
(* message channels.  A handler of either thread is one action, except     *)
(* that the worker's async INIT handler is cut at every await that yields  *)
(* to the event loop (fetch, createImageBitmap) and at every iteration of  *)
(* the palette loop.  The palette loop awaits only already-resolved        *)
(* promises, so the worker dispatches no other message event while it      *)
(* runs; the UI thread, however, runs in parallel with it.                 *)
(*                                                                         *)
(* Numbers: a float is modelled in fixed point, in units of 1/Scale; NaN   *)
(* is a sentinel.  A nullable value is a sequence of length 0 or 1.        *)
(***************************************************************************)
EXTENDS Integers, Sequences, FiniteSets, TLC

\* ---- bounds of the model ----
MaxRuns == 2
MaxChanges == 2
MaxRows == 3
MaxMoves == 3
MaxBumps == 2

\* ---- representation ----
Scale == 16
NaN == -999
Infinity == 1000000
None == <<>>
Some(x) == <<x>>
Val(o) == o[1]

IsNumber(v) == v # NaN
IsFinite(v) == IsNumber(v) /\ v # Infinity
Max(a, b) == IF a >= b THEN a ELSE b
Min(a, b) == IF a <= b THEN a ELSE b

LAYERS == <<"xkcd_color", "design_color", "common_color", "color_family">>
LayerSet == {LAYERS[n] : n \in 1..Len(LAYERS)}
K_COLORS == 6
K_DEFAULT == 8
EPS_DEFAULT == 35
MIN_PTS_DEFAULT == 3

\* ---- the assets the worker fetches ----
Row(r, g, b, x, d, c, f) ==
  [xkcd_r |-> r, xkcd_g |-> g, xkcd_b |-> b,
   xkcd_color |-> x, design_color |-> d, common_color |-> c, color_family |-> f]

\* /colornamer.json: a table with a malformed row and two entries of one family
TaxFileRGB ==
  << Row(255, 0, 0, "red", "red", "red", "red"),
     Row(NaN, 0, 0, "void", "void", "void", "void"),
     Row(0, 255, 0, "green", "green", "green", "green"),
     Row(0, 0, 255, "blue", "blue", "blue", "blue"),
     Row(200, 0, 0, "crimson", "dark red", "red", "red") >>
\* /colornamer.json: an empty table
TaxFileEmpty == << >>
TaxFiles == {TaxFileRGB, TaxFileEmpty}

\* an archive member: the number embedded in its name (NaN: none), whether the
\* name ends in .jpg, whether createImageBitmap accepts it, and the
\* [r, g, b, proportion] entries colorgram's extract returns for it
File(num, jpg, ok, st) == [num |-> num, jpg |-> jpg, decodes |-> ok, stats |-> st]

ArchiveTwo ==
  << File(2, TRUE, TRUE, << <<0, 250, 0, 8>>, <<250, 0, 0, 8>> >>),
     File(NaN, FALSE, FALSE, << >>),
     File(1, TRUE, TRUE, << <<250, 0, 0, 4>>, <<NaN, 0, 0, 8>>, <<210, 0, 0, 4>> >>) >>
ArchiveBroken ==
  << File(1, TRUE, TRUE, << <<0, 0, 250, 16>> >>),
     File(2, TRUE, FALSE, << >>) >>
ArchiveEmpty == << >>
Archives == {ArchiveTwo, ArchiveBroken, ArchiveEmpty}

VARIABLES
  taxFile, archive,          \* what the server serves
  \* worker globals
  images, imageUrls, tax, ordMaps, ordLists, distsCache, colorFamilyPalette,
  \* the INIT handler's position and locals
  pc, kColors, jpgs, loop_i, dists,
  \* channels
  inbox,                     \* UI -> worker, not yet dispatched
  outbox,                    \* worker -> UI: the messages posted and not yet dispatched
  posted,                    \* every message posted so far, without its result payload
  \* UI signals
  ready, progress, labels, uiImageUrls, isClustering, clusterDists,
  layer, method, eps, minPts, kMeansK, hasRun, runId,
  timers,                    \* pending setTimeout(runCluster, 500) callbacks
  \* history
  runLog,                    \* one record per RUN_CLUSTER the worker handled (clusters: what the library returned)
  sent,                      \* every RUN_CLUSTER the UI posted
  labelsFrom,                \* where the UI's labels came from
  nChanges,                  \* parameter changes made so far
  extracted,                 \* the image indices extractPalette was called on
  nBuild,                    \* calls of buildDistributions
  \* one WindowBase and what its props give it
  placement,                 \* the parent's signal read by props.placement()
  zoom,                      \* props.zoom()
  lastPlacement, pending, rafId,
  frames,                    \* requestAnimationFrame callbacks not yet run
  origin,                    \* x, y, width, height before the gesture
  travelled,                 \* the sum of the move events' deltas, each over its zoom
  nMoves,                    \* move events so far
  nBumps                     \* bringToFront calls so far

workerVars == <<images, imageUrls, tax, ordMaps, ordLists, distsCache, colorFamilyPalette>>
initVars == <<pc, kColors, jpgs, loop_i, dists>>
uiVars == <<ready, progress, labels, uiImageUrls, isClustering, clusterDists,
            layer, method, eps, minPts, kMeansK, hasRun, runId, timers>>
histVars == <<runLog, sent, labelsFrom, nChanges, extracted, nBuild>>
windowVars == <<placement, zoom, lastPlacement, pending, rafId, frames,
                origin, travelled, nMoves, nBumps>>
appVars == <<taxFile, archive, workerVars, initVars, inbox, outbox, posted, uiVars, histVars>>
vars == <<appVars, windowVars>>

\* ---- pure helpers of the worker ----
Front(s) == SubSeq(s, 1, Len(s) - 1)
Last(s) == s[Len(s)]

\* loadTaxonomy's loop: rows with a non-numeric channel are dropped
RECURSIVE ParseRows(_)
ParseRows(data) ==
  IF data = << >> THEN << >>
  ELSE LET entry == Head(data)
           rgb == <<entry.xkcd_r, entry.xkcd_g, entry.xkcd_b>>
       IN IF \E n \in 1..3 : ~IsNumber(rgb[n])
          THEN ParseRows(Tail(data))
          ELSE << [rgb |-> rgb, xkcd_color |-> entry.xkcd_color,
                   design_color |-> entry.design_color,
                   common_color |-> entry.common_color,
                   color_family |-> entry.color_family] >> \o ParseRows(Tail(data))

\* a map that gives index 0 to the newest name and moves the others up
RECURSIVE OrdMapNewestFirst(_, _)
OrdMapNewestFirst(t, key) ==
  IF t = << >> THEN << >>
  ELSE LET m == OrdMapNewestFirst(Front(t), key)
           name == Last(t)[key]
       IN IF name \in DOMAIN m THEN m
          ELSE [x \in DOMAIN m |-> m[x] + 1] @@ (name :> 0)

\* buildOrdMaps, one level: the Map name -> idx (0-based) ...
RECURSIVE OrdMapOf(_, _)
OrdMapOf(t, key) ==
  IF t = << >> THEN << >>
  ELSE LET m == OrdMapOf(Front(t), key)
           name == Last(t)[key]
       IN IF name \in DOMAIN m THEN m ELSE m @@ (name :> Cardinality(DOMAIN m))

\* ... and the list idx -> name, filled by the same loop
RECURSIVE OrdListOf(_, _)
OrdListOf(t, key) ==
  IF t = << >> THEN << >>
  ELSE LET l == OrdListOf(Front(t), key)
           name == Last(t)[key]
       IN IF \E n \in 1..Len(l) : l[n] = name THEN l ELSE Append(l, name)

HexDigits == <<"0", "1", "2", "3", "4", "5", "6", "7", "8", "9", "a", "b", "c", "d", "e", "f">>

\* Math.round of the rational q[1]/q[2]
Round(q) == (2 * q[1] + q[2]) \div (2 * q[2])

\* rgbToHex: each channel rounded, clamped to 0..255, two hex digits
rgbToHex(rgb) ==
  LET clamped(v) == Max(0, Min(255, Round(v)))
      hex2(v) == <<HexDigits[(clamped(v) \div 16) + 1], HexDigits[(clamped(v) % 16) + 1]>>
  IN <<"#">> \o hex2(rgb[1]) \o hex2(rgb[2]) \o hex2(rgb[3])

RECURSIVE FamilyAccum(_, _)
FamilyAccum(t, name) ==
  IF t = << >> THEN [sum |-> <<0, 0, 0>>, n |-> 0]
  ELSE LET cur == FamilyAccum(Front(t), name)
           entry == Last(t)
       IN IF entry.color_family = name
          THEN [sum |-> <<cur.sum[1] + entry.rgb[1], cur.sum[2] + entry.rgb[2],
                          cur.sum[3] + entry.rgb[3]>>, n |-> cur.n + 1]
          ELSE cur

\* buildColorFamilyPalette: palette[idx] is the hex of the family's average RGB
buildColorFamilyPalette(t, famMap) ==
  [j \in 1..Cardinality(DOMAIN famMap) |->
     LET name == CHOOSE x \in DOMAIN famMap : famMap[x] = j - 1
         stats == FamilyAccum(t, name)
         avg == IF stats.n > 0
                THEN <<<<stats.sum[1], stats.n>>, <<stats.sum[2], stats.n>>, <<stats.sum[3], stats.n>>>>
                ELSE <<<<148, 1>>, <<163, 1>>, <<184, 1>>>>
     IN rgbToHex(avg)]

\* the squared distance; a channel that is Infinity makes it Infinity (or
\* NaN), which is below no number
Dist2(a, b) ==
  IF \E n \in 1..3 : a[n] = Infinity \/ b[n] = Infinity THEN Infinity
  ELSE (a[1] - b[1]) * (a[1] - b[1]) + (a[2] - b[2]) * (a[2] - b[2])
       + (a[3] - b[3]) * (a[3] - b[3])

\* bestD: Infinity until an entry is taken ('best' is 0, for null)
BestD(t, rgb, best) == IF best = 0 THEN Infinity ELSE Dist2(rgb, t[best].rgb)

RgbMalformed(rgb) == Len(rgb) < 3 \/ \E n \in 1..Len(rgb) : ~IsNumber(rgb[n])

\* nearestTaxonomy throws on an empty table or a malformed colour
nearestThrows(t, rgb) == Len(t) = 0 \/ RgbMalformed(rgb)

\* a scan that also replaces 'best' by an equal distance
RECURSIVE NearestScanLast(_, _, _, _)
NearestScanLast(t, rgb, n, best) ==
  IF n > Len(t) THEN best
  ELSE IF Dist2(rgb, t[n].rgb) <= BestD(t, rgb, best)
       THEN NearestScanLast(t, rgb, n + 1, n)
       ELSE NearestScanLast(t, rgb, n + 1, best)

\* the scan: 'best' is replaced only by a strictly smaller distance
RECURSIVE NearestScan(_, _, _, _)
NearestScan(t, rgb, n, best) ==
  IF n > Len(t) THEN best
  ELSE IF Dist2(rgb, t[n].rgb) < BestD(t, rgb, best)
       THEN NearestScan(t, rgb, n + 1, n)
       ELSE NearestScan(t, rgb, n + 1, best)

\* 'return best!': null when no distance was below Infinity
Null == "null"
nearestTaxonomy(t, rgb) ==
  LET best == NearestScan(t, rgb, 1, 0)
  IN IF best = 0 THEN Null ELSE t[best]

\* extractPalette: entries with a non-numeric channel are dropped, a
\* non-finite proportion counts as 0
RECURSIVE PaletteOf(_)
PaletteOf(stats) ==
  IF stats = << >> THEN << >>
  ELSE LET entry == Head(stats)
       IN IF \E n \in 1..3 : ~IsNumber(entry[n])
          THEN PaletteOf(Tail(stats))
          ELSE << [rgb |-> <<entry[1], entry[2], entry[3]>>,
                   proportion |-> IF IsFinite(entry[4]) THEN entry[4] ELSE 0] >>
               \o PaletteOf(Tail(stats))

extractPalette(bmp, count) == PaletteOf(SubSeq(bmp.stats, 1, Min(count, Len(bmp.stats))))

\* buildDistributions, one image: does the palette loop throw ...
paletteThrows(t, palette) ==
  \E n \in 1..Len(palette) :
     /\ ~RgbMalformed(palette[n].rgb)
     /\ \/ nearestThrows(t, palette[n].rgb)
        \/ NearestScan(t, palette[n].rgb, 1, 0) = 0

\* ... and with which error: nearestTaxonomy's own, or the TypeError of
\* nearest[layer] on null
paletteError(t, palette) ==
  IF Len(t) = 0 THEN "taxonomy not loaded" ELSE "Cannot read properties of null"

\* an accumulator that keeps the last proportion seen for a name
RECURSIVE AccumulateLast(_, _, _)
AccumulateLast(t, palette, key) ==
  IF palette = << >> THEN << >>
  ELSE LET acc == AccumulateLast(t, Front(palette), key)
           c == Last(palette)
       IN IF RgbMalformed(c.rgb) THEN acc
          ELSE LET name == nearestTaxonomy(t, c.rgb)[key]
               IN IF name \in DOMAIN acc
                  THEN [acc EXCEPT ![name] = c.proportion]
                  ELSE acc @@ (name :> c.proportion)

\* ... the per-name accumulator of one level ...
RECURSIVE Accumulate(_, _, _)
Accumulate(t, palette, key) ==
  IF palette = << >> THEN << >>
  ELSE LET acc == Accumulate(t, Front(palette), key)
           c == Last(palette)
       IN IF RgbMalformed(c.rgb) THEN acc
          ELSE LET name == nearestTaxonomy(t, c.rgb)[key]
               IN IF name \in DOMAIN acc
                  THEN [acc EXCEPT ![name] = @ + c.proportion]
                  ELSE acc @@ (name :> c.proportion)

\* ... and its projection on the level's dense vector
DenseVector(acc, map) ==
  [j \in 1..Cardinality(DOMAIN map) |->
     LET name == CHOOSE x \in DOMAIN map : map[x] = j - 1
     IN IF name \in DOMAIN acc THEN acc[name] ELSE 0]

ImageVector(t, maps, palette, key) == DenseVector(Accumulate(t, palette, key), maps[key])

\* loadSamplesTarGz: the .jpg members in the order of the number in their name
SortKey(f) == IF IsNumber(f.num) THEN f.num ELSE 0

\* the .jpg members in the order of the archive
RECURSIVE JpgsInArchiveOrder(_)
JpgsInArchiveOrder(files) ==
  IF files = << >> THEN << >>
  ELSE IF ~Last(files).jpg THEN JpgsInArchiveOrder(Front(files))
       ELSE Append(JpgsInArchiveOrder(Front(files)), Last(files))

RECURSIVE SortedJpgs(_)
SortedJpgs(files) ==
  IF files = << >> THEN << >>
  ELSE LET rest == SortedJpgs(Front(files))
           f == Last(files)
           pos == Cardinality({n \in 1..Len(rest) : SortKey(rest[n]) <= SortKey(f)})
       IN IF ~f.jpg THEN rest
          ELSE SubSeq(rest, 1, pos) \o <<f>> \o SubSeq(rest, pos + 1, Len(rest))

Bitmap(f) == [num |-> f.num, stats |-> f.stats]
UrlOf(f) == <<"blob:", f.num>>

\* ---- clustering ----
\* Math.sqrt in fixed point: the largest r with (r/Scale)^2 <= v/Scale
Sqrt(v) == CHOOSE r \in 0..Max(v, Scale) : r * r <= v * Scale /\ (r + 1) * (r + 1) > v * Scale

\* a transform that writes the square roots back into the cached arrays
SqrtInPlace(cache, key) ==
  LET roots == [n \in 1..Len(cache[key]) |->
                  [j \in 1..Len(cache[key][n]) |-> Sqrt(cache[key][n][j])]]
  IN [out |-> roots, cache |-> [cache EXCEPT ![key] = roots]]

\* the Hellinger embedding of one level: fresh arrays 'out', the cache as it
\* is left behind
SqrtTransform(cache, key) ==
  [out |-> [n \in 1..Len(cache[key]) |->
              [j \in 1..Len(cache[key][n]) |-> Sqrt(cache[key][n][j])]],
   cache |-> cache]

\* the distance callback handed to DBSCAN, Euclid in sqrt-space, compared
\* with eps (eps is held in hundredths, the vectors in units of 1/Scale)
RECURSIVE SumSq(_, _)
SumSq(a, b) ==
  IF a = << >> THEN 0
  ELSE SumSq(Front(a), Front(b)) + (Last(a) - Last(b)) * (Last(a) - Last(b))

\* a neighbourhood test that ignores the radius
WithinSamePoint(a, b, e) == SumSq(a, b) = 0

\* the callback's Euclidean distance compared with eps: dist < eps
Within(a, b, e) == SumSq(a, b) * 100 * 100 < e * e * Scale * Scale

\* a region query that leaves the point itself out
regionQueryOthers(data, p, e) ==
  SelectSeq([x \in 1..Len(data) |-> x - 1],
            LAMBDA id : id # p /\ Within(data[p + 1], data[id + 1], e))

\* DBSCAN._regionQuery: the points closer than eps to point p, p included,
\* in index order
regionQuery(data, p, e) ==
  SelectSeq([x \in 1..Len(data) |-> x - 1],
            LAMBDA id : Within(data[p + 1], data[id + 1], e))

\* DBSCAN._mergeArrays: a, then the members of b that a does not hold yet
RECURSIVE mergeArrays(_, _)
mergeArrays(a, b) ==
  IF b = << >> THEN a
  ELSE LET m == mergeArrays(a, Front(b))
       IN IF \E n \in 1..Len(m) : m[n] = Last(b) THEN m ELSE Append(m, Last(b))

\* DBSCAN._expandCluster for the cluster created last: the neighbour list
\* grows while it is walked
RECURSIVE expandCluster(_, _, _, _, _, _)
expandCluster(data, e, minNeighbors, st, neighbors, i) ==
  IF i > Len(neighbors) THEN st
  ELSE LET p2 == neighbors[i]
           n2 == regionQuery(data, p2, e)
           grown == IF p2 \notin st.visited /\ Len(n2) >= minNeighbors
                    THEN mergeArrays(neighbors, n2) ELSE neighbors
           after == [visited |-> st.visited \cup {p2},
                     assigned |-> st.assigned \cup {p2},
                     clusters |-> IF p2 \in st.assigned THEN st.clusters
                                  ELSE [st.clusters EXCEPT ![Len(st.clusters)] = Append(@, p2)]]
       IN expandCluster(data, e, minNeighbors, after, grown, i + 1)

\* DBSCAN.run, the loop over the points from point p on
RECURSIVE dbscanScan(_, _, _, _, _)
dbscanScan(data, e, minNeighbors, st, p) ==
  IF p >= Len(data) THEN st
  ELSE IF p \in st.visited THEN dbscanScan(data, e, minNeighbors, st, p + 1)
  ELSE LET neighbors == regionQuery(data, p, e)
           seen == [st EXCEPT !.visited = @ \cup {p}]
           seeded == [seen EXCEPT !.clusters = Append(@, <<p>>), !.assigned = @ \cup {p}]
       IN IF Len(neighbors) < minNeighbors
          THEN dbscanScan(data, e, minNeighbors, seen, p + 1)
          ELSE dbscanScan(data, e, minNeighbors,
                          expandCluster(data, e, minNeighbors, seeded, neighbors, 1), p + 1)

\* new DBSCAN().run(data, eps, minPts, distance): the clusters, each the list
\* of its point indices
dbscanRun(data, e, minNeighbors) ==
  dbscanScan(data, e, minNeighbors, [visited |-> {}, assigned |-> {}, clusters |-> << >>], 0).clusters

\* a clamp that keeps a k above the number of images
kAdjUnbounded(k, n) == Max(1, k)

\* kAdj = Math.max(1, Math.min(k, data.length))
kAdj(k, n) == Max(1, Min(k, n))

\* a partition that may leave a point with no centroid
kmeansLeavingOut(n, k) ==
  {[c \in 1..k |-> {id \in 0..(n - 1) : asg[id] = c - 1}] : asg \in [0..(n - 1) -> 0..k]}

\* new KMEANS().run(data, k) starts from randomly drawn centroids: every
\* point is assigned to one of the k centroids, a centroid may keep no point
kmeansOutcomes(n, k) ==
  {[c \in 1..k |-> {id \in 0..(n - 1) : asg[id] = c - 1}] : asg \in [0..(n - 1) -> 0..(k - 1)]}

\* the clusters the handler gets for a request, each as the set of its members
ClusterOutcomes(msg, data) ==
  IF msg.method = "kmeans"
  THEN kmeansOutcomes(Len(data), kAdj(msg.k, Len(data)))
  ELSE LET found == dbscanRun(data, msg.eps, msg.minPts)
       IN {[c \in 1..Len(found) |-> {found[c][x] : x \in 1..Len(found[c])}]}

\* a label fill that numbers the clusters from 1
LabelsOfOneBased(n, clusters) ==
  [x \in 1..n |->
     IF \E ci \in 1..Len(clusters) : (x - 1) \in clusters[ci]
     THEN CHOOSE ci \in 1..Len(clusters) :
             /\ (x - 1) \in clusters[ci]
             /\ \A cj \in (ci + 1)..Len(clusters) : (x - 1) \notin clusters[cj]
     ELSE -1]

\* labels filled with -1, then labels[idx] = ci for every member of cluster ci
LabelsOf(n, clusters) ==
  [x \in 1..n |->
     IF \E ci \in 1..Len(clusters) : (x - 1) \in clusters[ci]
     THEN (CHOOSE ci \in 1..Len(clusters) :
             /\ (x - 1) \in clusters[ci]
             /\ \A cj \in (ci + 1)..Len(clusters) : (x - 1) \notin clusters[cj]) - 1
     ELSE -1]

\* the keys of the Map 'agg', in insertion order
RECURSIVE AggIds(_)
AggIds(labs) ==
  IF labs = << >> THEN << >>
  ELSE LET ids == AggIds(Front(labs))
       IN IF \E n \in 1..Len(ids) : ids[n] = Last(labs) THEN ids ELSE Append(ids, Last(labs))

\* an accumulator that adds the vector of every image, whatever its label
RECURSIVE AggVecAll(_, _, _, _)
AggVecAll(labs, famVecs, id, nDims) ==
  IF labs = << >> THEN [j \in 1..nDims |-> 0]
  ELSE LET target == AggVecAll(Front(labs), famVecs, id, nDims)
           vec == famVecs[Len(labs)]
       IN [j \in 1..nDims |-> target[j] + vec[j]]

RECURSIVE AggVec(_, _, _, _)
AggVec(labs, famVecs, id, nDims) ==
  IF labs = << >> THEN [j \in 1..nDims |-> 0]
  ELSE LET target == AggVec(Front(labs), famVecs, id, nDims)
           vec == famVecs[Len(labs)]
       IN IF Last(labs) = id THEN [j \in 1..nDims |-> target[j] + vec[j]] ELSE target

RECURSIVE SumSeq(_)
SumSeq(v) == IF v = << >> THEN 0 ELSE SumSeq(Front(v)) + Last(v)

\* the positive entries of vec as {v, idx}, sorted by ascending v
RECURSIVE AscendingParts(_, _)
AscendingParts(vec, n) ==
  IF n = 0 THEN << >>
  ELSE LET rest == AscendingParts(vec, n - 1)
           pos == Cardinality({m \in 1..Len(rest) : rest[m].v <= vec[n]})
       IN IF vec[n] > 0
          THEN SubSeq(rest, 1, pos) \o <<[v |-> vec[n], idx |-> n - 1]>>
               \o SubSeq(rest, pos + 1, Len(rest))
          ELSE rest

\* the positive entries of vec as {v, idx}, sorted by descending v (stable)
RECURSIVE SortedParts(_, _)
SortedParts(vec, n) ==
  IF n = 0 THEN << >>
  ELSE LET rest == SortedParts(vec, n - 1)
           pos == Cardinality({m \in 1..Len(rest) : rest[m].v >= vec[n]})
       IN IF vec[n] > 0
          THEN SubSeq(rest, 1, pos) \o <<[v |-> vec[n], idx |-> n - 1]>>
               \o SubSeq(rest, pos + 1, Len(rest))
          ELSE rest

GRAY == <<"#", "9", "4", "a", "3", "b", "8">>

\* parts whose share is taken of the largest weight
ClusterPartsOfLargest(vec, famList, palette) ==
  LET ps == SortedParts(vec, Len(vec))
  IN [n \in 1..Len(ps) |->
        [name |-> IF ps[n].idx + 1 <= Len(famList) THEN famList[ps[n].idx + 1]
                  ELSE <<"fam-", ps[n].idx>>,
         pct |-> <<ps[n].v, ps[1].v>>,
         color |-> IF ps[n].idx + 1 <= Len(palette) THEN palette[ps[n].idx + 1] ELSE GRAY]]

\* one entry of the summary; pct is the rational <<v, total>>
ClusterParts(vec, famList, palette) ==
  LET total == SumSeq(vec)
      ps == SortedParts(vec, Len(vec))
  IN [n \in 1..Len(ps) |->
        [name |-> IF ps[n].idx + 1 <= Len(famList) THEN famList[ps[n].idx + 1]
                  ELSE <<"fam-", ps[n].idx>>,
         pct |-> <<ps[n].v, total>>,
         color |-> IF ps[n].idx + 1 <= Len(palette) THEN palette[ps[n].idx + 1] ELSE GRAY]]

\* a summary that keeps the clusters without weight
RECURSIVE SummaryKeepingEmpty(_, _, _, _, _)
SummaryKeepingEmpty(ids, labs, famVecs, famList, palette) ==
  IF ids = << >> THEN << >>
  ELSE LET vec == AggVec(labs, famVecs, Head(ids), Len(famVecs[1]))
       IN <<[id |-> Head(ids), parts |-> ClusterParts(vec, famList, palette)]>>
          \o SummaryKeepingEmpty(Tail(ids), labs, famVecs, famList, palette)

RECURSIVE SummaryOf(_, _, _, _, _)
SummaryOf(ids, labs, famVecs, famList, palette) ==
  IF ids = << >> THEN << >>
  ELSE LET vec == AggVec(labs, famVecs, Head(ids), Len(famVecs[1]))
           rest == SummaryOf(Tail(ids), labs, famVecs, famList, palette)
       IN IF SumSeq(vec) <= 0 THEN rest
          ELSE <<[id |-> Head(ids), parts |-> ClusterParts(vec, famList, palette)]>> \o rest

\* summarizeColorFamilies; None is 'undefined'
summarizeColorFamilies(labs, cache, lists, palette) ==
  IF cache = None \/ lists = None \/ palette = None THEN None
  ELSE IF Len(Val(cache).color_family) = 0 THEN None
  ELSE Some(SummaryOf(AggIds(labs), labs, Val(cache).color_family,
                      Val(lists).color_family, Val(palette)))

\* ---- messages ----
Progress(phase, done, total) == [type |-> "PROGRESS", phase |-> phase, done |-> done, total |-> total]
FailMsg(stage, message) == Progress(<<stage, " failed: ", message>>, 0, 1)
Ready(n, urls) == [type |-> "READY", nImages |-> n, imageUrls |-> urls]
InitMsg == [type |-> "INIT", kColors |-> K_COLORS]

EmptyDists == [key \in LayerSet |-> << >>]
CACHE_EMPTY == "Distribution cache empty. Did INIT finish?"

\* ---- WindowBase ----
\* defaultPlacement(id, 0), lengths in units of 1/Scale
DefaultPlacement ==
  [x |-> 420 * Scale, y |-> 160 * Scale, width |-> 360 * Scale, height |-> 300 * Scale,
   zIndex |-> 10]

\* the scales of the canvas in this model (between minZoom and maxZoom)
Zooms == {1, 2}

ZeroDelta == [dx |-> 0, dy |-> 0, dw |-> 0, dh |-> 0, dl |-> 0, dt |-> 0]

\* ev.dx / scale
Over(d, scale) == (d * Scale) \div scale

\* the (ev.dx, ev.dy) of the drag move events in this model
DragMoves == {<<3, 1>>, <<-2, 0>>}

\* the ev.deltaRect of the resize move events in this model (the right and
\* bottom edges only), None for an event without one
ResizeMoves ==
  { Some([width |-> 4, height |-> 2, left |-> 0, top |-> 0]),
    Some([width |-> -2, height |-> 0, left |-> 0, top |-> 0]),
    None }

\* ev.deltaRect?.f ?? 0
RectField(rect, f) == IF rect = None THEN 0 ELSE Val(rect)[f]

\* x, y, width and height of a placement
Geometry(p) == [x |-> p.x, y |-> p.y, width |-> p.width, height |-> p.height]

\* the createEffect on props.placement(), run when the signal is set to p
PlacementEffect(p) ==
  /\ lastPlacement' = Some(p)
  /\ pending' = ZeroDelta

\* the component after its first render: the effect has run once
Mounted ==
  /\ placement = DefaultPlacement
  /\ zoom = 1
  /\ lastPlacement = Some(DefaultPlacement)
  /\ pending = ZeroDelta
  /\ rafId = None
  /\ frames = 0
  /\ origin = Geometry(DefaultPlacement)
  /\ travelled = [x |-> 0, y |-> 0, width |-> 0, height |-> 0]
  /\ nMoves = 0
  /\ nBumps = 0

\* enqueue: a frame is requested unless one is known to be requested
enqueue ==
  IF rafId = None
  THEN /\ rafId' = Some(1)
       /\ frames' = frames + 1
  ELSE UNCHANGED <<rafId, frames>>

\* the move listener of draggable
DragMove ==
  /\ nMoves < MaxMoves
  /\ \E ev \in DragMoves :
       LET scale == zoom
       IN /\ pending' = [pending EXCEPT !.dx = @ + Over(ev[1], scale),
                                        !.dy = @ + Over(ev[2], scale)]
          /\ travelled' = [travelled EXCEPT !.x = @ + Over(ev[1], scale),
                                            !.y = @ + Over(ev[2], scale)]
  /\ enqueue
  /\ nMoves' = nMoves + 1
  /\ UNCHANGED <<appVars, placement, zoom, lastPlacement, origin, nBumps>>

\* the move listener of resizable
ResizeMove ==
  /\ nMoves < MaxMoves
  /\ \E rect \in ResizeMoves :
       LET scale == zoom
           w == Over(RectField(rect, "width"), scale)
           h == Over(RectField(rect, "height"), scale)
           l == Over(RectField(rect, "left"), scale)
           t == Over(RectField(rect, "top"), scale)
       IN /\ pending' = [pending EXCEPT !.dw = @ + w, !.dh = @ + h,
                                        !.dl = @ + l, !.dt = @ + t]
          /\ travelled' = [travelled EXCEPT !.x = @ + l, !.y = @ + t,
                                            !.width = @ + w, !.height = @ + h]
  /\ enqueue
  /\ nMoves' = nMoves + 1
  /\ UNCHANGED <<appVars, placement, zoom, lastPlacement, origin, nBumps>>

\* the animation frame: flush, then onUpdate(next) sets the parent's signal
\* and the effect runs on the new placement
FlushFrame ==
  /\ frames > 0
  /\ frames' = frames - 1
  /\ rafId' = None
  /\ LET base == IF lastPlacement # None THEN lastPlacement ELSE Some(placement)
     IN IF base = None
        THEN /\ pending' = ZeroDelta
             /\ UNCHANGED <<placement, lastPlacement>>
        ELSE LET next == [x |-> Val(base).x + pending.dx + pending.dl,
                          y |-> Val(base).y + pending.dy + pending.dt,
                          width |-> Val(base).width + pending.dw,
                          height |-> Val(base).height + pending.dh]
                 merged == [f \in DOMAIN placement |->
                              IF f \in DOMAIN next THEN next[f] ELSE placement[f]]
             IN /\ placement' = merged
                /\ PlacementEffect(merged)
  /\ UNCHANGED <<appVars, zoom, origin, travelled, nMoves, nBumps>>

\* props.bringToFront (mousedown or touchstart on the panel): bumpZ gives the
\* placement the next zIndex
BringToFront ==
  /\ nBumps < MaxBumps
  /\ nBumps' = nBumps + 1
  /\ LET bumped == [placement EXCEPT !.zIndex = @ + 1]
     IN /\ placement' = bumped
        /\ PlacementEffect(bumped)
  /\ UNCHANGED <<appVars, zoom, rafId, frames, origin, travelled, nMoves>>

\* arrangePanels for one panel in a viewport of 1280 x 800 with no pan
Arranged(scale) ==
  [x |-> Over(40, scale), y |-> Over(80, scale),
   width |-> Over(520, scale), height |-> Over(420, scale)]

\* the panels are arranged: the placement is set anew, and what is moved
\* from here on is counted from the arranged placement
Arrange ==
  /\ Geometry(placement) # Arranged(zoom)
  /\ LET arranged == [f \in DOMAIN placement |->
                        IF f \in DOMAIN Arranged(zoom) THEN Arranged(zoom)[f]
                        ELSE placement[f]]
     IN /\ placement' = arranged
        /\ PlacementEffect(arranged)
  /\ origin' = Arranged(zoom)
  /\ travelled' = [x |-> 0, y |-> 0, width |-> 0, height |-> 0]
  /\ UNCHANGED <<appVars, zoom, rafId, frames, nMoves, nBumps>>

\* the canvas is zoomed in or out
SetZoom ==
  /\ \E z \in Zooms \ {zoom} : zoom' = z
  /\ UNCHANGED <<appVars, placement, lastPlacement, pending, rafId, frames,
                 origin, travelled, nMoves, nBumps>>

\* ---- the state after App's onMount ----
Init ==
  /\ taxFile \in TaxFiles
  /\ archive \in Archives
  /\ images = << >> /\ imageUrls = << >> /\ tax = << >>
  /\ ordMaps = None /\ ordLists = None /\ distsCache = None /\ colorFamilyPalette = None
  /\ pc = "idle" /\ kColors = 0 /\ jpgs = << >> /\ loop_i = 0 /\ dists = EmptyDists
  /\ inbox = <<InitMsg>>
  /\ outbox = << >> /\ posted = << >>
  /\ ready = FALSE /\ progress = None /\ labels = None /\ uiImageUrls = None
  /\ isClustering = FALSE /\ clusterDists = << >>
  /\ layer = "xkcd_color" /\ method = "dbscan"
  /\ eps = EPS_DEFAULT /\ minPts = MIN_PTS_DEFAULT /\ kMeansK = K_DEFAULT
  /\ hasRun = FALSE /\ runId = 0 /\ timers = 0
  /\ runLog = << >> /\ sent = << >> /\ labelsFrom = None
  /\ nChanges = 0 /\ extracted = << >> /\ nBuild = 0
  /\ Mounted

\* ---- the worker ----
\* a fail that raises without posting
failSilently(out, stage, message) == out

\* fail(stage, error): the failure is appended to what was posted so far,
\* then the handler's promise rejects
fail(out, stage, message) == Append(out, FailMsg(stage, message))

\* a posted message as the log keeps it
Strip(m) == [f \in DOMAIN m \ {"labels", "colorFamilyDist"} |-> m[f]]

\* self.postMessage: out is the outbox after the step's messages were queued
Posts(out) ==
  /\ outbox' = out
  /\ posted' = posted \o [n \in 1..(Len(out) - Len(outbox)) |-> Strip(out[Len(outbox) + n])]

\* how many messages the UI thread has been handed
delivered == Len(posted) - Len(outbox)

InitFails(message) ==
  /\ Posts(fail(outbox, "init", message))
  /\ pc' = "failed"

\* a dispatch that hands over the newest message of the queue
DispatchedNewest(queue) == Last(queue)

\* evt.data of the message event dispatched next: the oldest in the queue
Dispatched(queue) == Head(queue)

\* the worker dispatches message events only between tasks
WorkerFree == pc # "build"

\* onmessage, INIT branch up to the fetch of the taxonomy
HandleInit ==
  /\ WorkerFree /\ pc = "idle"
  /\ inbox # << >> /\ Head(inbox).type = "INIT"
  /\ inbox' = Tail(inbox)
  /\ kColors' = Head(inbox).kColors
  /\ Posts(Append(outbox, Progress(<<"loading taxonomy">>, 0, 1)))
  /\ pc' = "loadTaxonomy"
  /\ UNCHANGED <<windowVars, taxFile, archive, workerVars, jpgs, loop_i, dists, uiVars, histVars>>

\* loadTaxonomy resolves or rejects; on success the samples are requested
LoadTaxonomy ==
  /\ pc = "loadTaxonomy"
  /\ \E outcome \in {"ok", "fetch failed", "invalid json"} :
       IF outcome = "ok"
       THEN LET parsed == ParseRows(taxFile)
                fam == OrdMapOf(parsed, "color_family")
            IN /\ tax' = parsed
               /\ ordMaps' = Some([key \in LayerSet |-> OrdMapOf(parsed, key)])
               /\ ordLists' = Some([key \in LayerSet |-> OrdListOf(parsed, key)])
               /\ colorFamilyPalette' = Some(buildColorFamilyPalette(parsed, fam))
               /\ Posts(Append(outbox, Progress(<<"loading samples">>, 0, 1)))
               /\ pc' = "loadSamples"
       ELSE /\ InitFails(outcome)
            /\ UNCHANGED <<tax, ordMaps, ordLists, colorFamilyPalette>>
  /\ UNCHANGED <<windowVars, taxFile, archive, images, imageUrls, distsCache, kColors, jpgs, loop_i, dists,
                 inbox, uiVars, histVars>>

\* after READY is posted the handler calls buildDistributions (ordMaps is
\* set by then: loadTaxonomy has called buildOrdMaps)
StartBuild(urls, n) ==
  /\ Posts(Append(outbox, Ready(n, urls)))
  /\ pc' = "build"
  /\ loop_i' = 0
  /\ dists' = EmptyDists
  /\ nBuild' = nBuild + 1

\* loadSamplesTarGz up to the first createImageBitmap
LoadSamples ==
  /\ pc = "loadSamples"
  /\ \E outcome \in {"ok", "Failed to fetch samples", "untar failed"} :
       IF outcome = "ok"
       THEN LET sorted == SortedJpgs(archive)
            IN /\ jpgs' = sorted
               /\ images' = << >>
               /\ IF Len(sorted) = 0
                  THEN /\ imageUrls' = << >>
                       /\ StartBuild(<< >>, 0)
                  ELSE /\ imageUrls' = <<UrlOf(sorted[1])>>
                       /\ Posts(Append(outbox, Progress(<<"decoding samples">>, 0, Len(sorted))))
                       /\ pc' = "decode"
                       /\ loop_i' = 0
                       /\ UNCHANGED <<dists, nBuild>>
       ELSE /\ InitFails(outcome)
            /\ UNCHANGED <<images, imageUrls, jpgs, loop_i, dists, nBuild>>
  /\ UNCHANGED <<windowVars, taxFile, archive, tax, ordMaps, ordLists, distsCache, colorFamilyPalette,
                 kColors, inbox, uiVars, runLog, sent, labelsFrom, nChanges, extracted>>

\* createImageBitmap of jpgs[i] resolves or rejects; the loop goes on to the
\* next member or, after the last one, READY is posted
DecodeImage ==
  /\ pc = "decode"
  /\ LET f == jpgs[loop_i + 1]
     IN IF ~f.decodes
        THEN /\ InitFails("could not decode image")
             /\ UNCHANGED <<images, imageUrls, loop_i, dists, nBuild>>
        ELSE /\ images' = Append(images, Bitmap(f))
             /\ IF loop_i + 1 < Len(jpgs)
                THEN /\ Posts(Append(outbox,
                                  Progress(<<"decoding samples">>, loop_i + 1, Len(jpgs))))
                     /\ imageUrls' = Append(imageUrls, UrlOf(jpgs[loop_i + 2]))
                     /\ loop_i' = loop_i + 1
                     /\ UNCHANGED <<pc, dists, nBuild>>
                ELSE /\ StartBuild(imageUrls, Len(images'))
                     /\ UNCHANGED imageUrls
  /\ UNCHANGED <<windowVars, taxFile, archive, tax, ordMaps, ordLists, distsCache, colorFamilyPalette,
                 kColors, jpgs, inbox, uiVars, runLog, sent, labelsFrom, nChanges,
                 extracted>>

\* buildDistributions, one iteration of the loop over images
BuildStep ==
  /\ pc = "build" /\ loop_i < Len(images)
  /\ extracted' = Append(extracted, loop_i)
  /\ LET palette == extractPalette(images[loop_i + 1], kColors)
         progressed == Append(outbox, Progress(<<"extracting palettes">>, loop_i, Len(images)))
     IN IF paletteThrows(tax, palette)
        THEN /\ Posts(fail(progressed, "init", paletteError(tax, palette)))
             /\ pc' = "failed"
             /\ UNCHANGED <<loop_i, dists>>
        ELSE /\ Posts(progressed)
             /\ dists' = [key \in LayerSet |->
                            Append(dists[key], ImageVector(tax, Val(ordMaps), palette, key))]
             /\ loop_i' = loop_i + 1
             /\ UNCHANGED pc
  /\ UNCHANGED <<windowVars, taxFile, archive, workerVars, kColors, jpgs, inbox, uiVars,
                 runLog, sent, labelsFrom, nChanges, nBuild>>

\* buildDistributions returns and the INIT handler caches its result
BuildFinish ==
  /\ pc = "build" /\ loop_i = Len(images)
  /\ distsCache' = Some(dists)
  /\ pc' = "done"
  /\ UNCHANGED <<windowVars, taxFile, archive, images, imageUrls, tax, ordMaps, ordLists, colorFamilyPalette,
                 kColors, jpgs, loop_i, dists, inbox, outbox, posted, uiVars, histVars>>

\* a CLUSTERS message that does not echo the run id
ClustersMsgNoRunId(msg, labs, dist) ==
  [type |-> "CLUSTERS", labels |-> labs, layer |-> msg.layer, colorFamilyDist |-> dist]

\* the CLUSTERS message: layer and runId are the request's own
ClustersMsg(msg, labs, dist) ==
  [type |-> "CLUSTERS", labels |-> labs, layer |-> msg.layer, runId |-> msg.runId,
   colorFamilyDist |-> dist]

\* a cache check that answers with an empty clustering instead of failing
CacheAbsentEmptyResult(msg) ==
  Append(outbox, [type |-> "CLUSTERS", labels |-> << >>, layer |-> msg.layer,
                  runId |-> msg.runId, colorFamilyDist |-> None])

\* the cache check fails: throw, caught, fail("cluster", error)
CacheAbsent(msg) == fail(outbox, "cluster", CACHE_EMPTY)

\* a handler that extracts every palette again on each request
PalettesExtractedAgain(msg) == [n \in 1..Len(images) |-> n - 1]

\* the images whose palette a RUN_CLUSTER handler extracts: none, the
\* vectors are read from distsCache
PalettesExtractedByRun(msg) == << >>

\* onmessage, RUN_CLUSTER branch: no await, so one task
HandleRunCluster ==
  /\ WorkerFree
  /\ inbox # << >> /\ Head(inbox).type = "RUN_CLUSTER"
  /\ LET msg == Dispatched(inbox)
     IN /\ inbox' = Tail(inbox)
        /\ extracted' = extracted \o PalettesExtractedByRun(msg)
        /\ IF distsCache = None
           THEN /\ Posts(CacheAbsent(msg))
                /\ runLog' = Append(runLog, [req |-> msg, cache |-> FALSE, out |-> Len(posted) + 1,
                                              clusters |-> << >>])
                /\ UNCHANGED distsCache
           ELSE LET t == SqrtTransform(Val(distsCache), msg.layer)
                    n == Len(t.out)
                IN \E clusters \in ClusterOutcomes(msg, t.out) :
                     LET labs == LabelsOf(n, clusters)
                         dist == summarizeColorFamilies(labs, Some(t.cache), ordLists,
                                                        colorFamilyPalette)
                     IN /\ Posts(Append(outbox, ClustersMsg(msg, labs, dist)))
                        /\ distsCache' = Some(t.cache)
                        /\ runLog' = Append(runLog,
                                            [req |-> msg, cache |-> TRUE, out |-> Len(posted) + 1,
                                             clusters |-> clusters])
  /\ UNCHANGED <<windowVars, taxFile, archive, images, imageUrls, tax, ordMaps, ordLists, colorFamilyPalette,
                 initVars, uiVars, sent, labelsFrom, nChanges, nBuild>>

\* ---- the UI ----
RunRequest(id) ==
  [type |-> "RUN_CLUSTER", layer |-> layer, method |-> method, eps |-> eps,
   minPts |-> minPts, k |-> kMeansK, runId |-> id]

\* a runCluster that sends the current run id again
runClusterSameId ==
  IF ~ready
  THEN UNCHANGED <<runId, isClustering, inbox, sent>>
  ELSE /\ runId' = Max(runId, 1)
       /\ isClustering' = TRUE
       /\ inbox' = Append(inbox, RunRequest(Max(runId, 1)))
       /\ sent' = Append(sent, RunRequest(Max(runId, 1)))

\* runCluster: nothing before READY, else the next run id is issued
runCluster ==
  IF ~ready
  THEN UNCHANGED <<runId, isClustering, inbox, sent>>
  ELSE LET nextId == runId + 1
       IN /\ runId' = nextId
          /\ isClustering' = TRUE
          /\ inbox' = Append(inbox, RunRequest(nextId))
          /\ sent' = Append(sent, RunRequest(nextId))

\* the debounce effect, re-run because a signal it reads has changed: a
\* timer is set, and the function it returns is not registered anywhere
EffectTimers(isReady, ran) == IF isReady /\ ran THEN timers + 1 ELSE timers

\* the timers counted once 'issued' run ids are used: those that can still
\* fire and one more (a timer whose request would be beyond MaxRuns never
\* fires)
Pending(t, issued) == Min(t, MaxRuns - issued + 1)

\* the Run button (disabled while clustering): setHasRun(true); runCluster()
ClickRun ==
  /\ ready /\ ~isClustering
  /\ runId < MaxRuns
  /\ hasRun' = TRUE
  /\ timers' = Pending(IF hasRun THEN timers ELSE EffectTimers(ready, TRUE), runId + 1)
  /\ runCluster
  /\ UNCHANGED <<windowVars, taxFile, archive, workerVars, initVars, outbox, posted,
                 ready, progress, labels, uiImageUrls, clusterDists,
                 layer, method, eps, minPts, kMeansK,
                 runLog, labelsFrom, nChanges, extracted, nBuild>>

\* a pending timer fires: runCluster()
TimerFires ==
  /\ timers > 0
  /\ runId < MaxRuns
  /\ timers' = timers - 1
  /\ runCluster
  /\ UNCHANGED <<windowVars, taxFile, archive, workerVars, initVars, outbox, posted,
                 ready, progress, labels, uiImageUrls, clusterDists,
                 layer, method, eps, minPts, kMeansK, hasRun,
                 runLog, labelsFrom, nChanges, extracted, nBuild>>

\* the values the controls offer in this model
LayerChoices == LayerSet
MethodChoices == {"dbscan", "kmeans"}
EpsChoices == {EPS_DEFAULT, 100}
MinPtsChoices == {MIN_PTS_DEFAULT, 2}
KChoices == {K_DEFAULT, 2}

\* a control of the panel (shown once ready; the eps and minPts sliders while
\* the method is dbscan, the k slider while it is kmeans) sets its signal to
\* a new value
ParamChanged ==
  /\ nChanges' = nChanges + 1
  /\ timers' = Pending(EffectTimers(ready, hasRun), runId)
  /\ UNCHANGED <<windowVars, taxFile, archive, workerVars, initVars, inbox, outbox, posted,
                 ready, progress, labels, uiImageUrls, isClustering, clusterDists,
                 hasRun, runId, runLog, sent, labelsFrom, extracted, nBuild>>

CanChange == ready /\ nChanges < MaxChanges

SetLayer ==
  /\ CanChange
  /\ \E v \in LayerChoices \ {layer} : layer' = v
  /\ ParamChanged
  /\ UNCHANGED <<method, eps, minPts, kMeansK>>

SetMethod ==
  /\ CanChange
  /\ \E v \in MethodChoices \ {method} : method' = v
  /\ ParamChanged
  /\ UNCHANGED <<layer, eps, minPts, kMeansK>>

SetEps ==
  /\ CanChange /\ method = "dbscan"
  /\ \E v \in EpsChoices \ {eps} : eps' = v
  /\ ParamChanged
  /\ UNCHANGED <<layer, method, minPts, kMeansK>>

SetMinPts ==
  /\ CanChange /\ method = "dbscan"
  /\ \E v \in MinPtsChoices \ {minPts} : minPts' = v
  /\ ParamChanged
  /\ UNCHANGED <<layer, method, eps, kMeansK>>

SetKMeansK ==
  /\ CanChange /\ method = "kmeans"
  /\ \E v \in KChoices \ {kMeansK} : kMeansK' = v
  /\ ParamChanged
  /\ UNCHANGED <<layer, method, eps, minPts>>

\* Gallery.groups / the clusters memo: the Map label -> indices, in the order
\* the labels are first met ...
RECURSIVE GroupMap(_)
GroupMap(labs) ==
  IF labs = << >> THEN << >>
  ELSE LET m == GroupMap(Front(labs))
           lab == Last(labs)
           i == Len(labs) - 1
       IN IF \E g \in 1..Len(m) : m[g][1] = lab
          THEN [g \in 1..Len(m) |-> IF m[g][1] = lab THEN <<lab, Append(m[g][2], i)>> ELSE m[g]]
          ELSE Append(m, <<lab, <<i>>>>)

\* ... the comparator handed to sort: noise (-1) after everything else ...
GroupOrder(a, b) == IF a[1] = -1 THEN 1 ELSE IF b[1] = -1 THEN -1 ELSE a[1] - b[1]

\* groups that stay in the order of the Map
groupsUnsorted(labs) == GroupMap(labs)

\* ... and the sorted entries (the sort is stable)
RECURSIVE SortGroups(_)
SortGroups(m) ==
  IF m = << >> THEN << >>
  ELSE LET rest == SortGroups(Front(m))
           pos == Cardinality({g \in 1..Len(rest) : GroupOrder(rest[g], Last(m)) <= 0})
       IN SubSeq(rest, 1, pos) \o <<Last(m)>> \o SubSeq(rest, pos + 1, Len(rest))

groups(labs) == SortGroups(GroupMap(labs))

\* an acceptance test that also takes older results
AcceptsOlder(m, current) == "runId" \notin DOMAIN m \/ m.runId <= current

\* worker.onmessage: is a CLUSTERS message taken
Accepts(m, current) == "runId" \notin DOMAIN m \/ m.runId = current

\* the map String(entry.id) -> entry.parts of (m.colorFamilyDist ?? [])
RECURSIVE DistMap(_)
DistMap(entries) ==
  IF entries = << >> THEN << >>
  ELSE (Last(entries).id :> Last(entries).parts) @@ DistMap(Front(entries))

\* worker.onmessage in the UI
UiReceive ==
  /\ outbox # << >>
  /\ outbox' = Tail(outbox)
  /\ LET m == Head(outbox)
     IN CASE m.type = "PROGRESS" ->
               /\ progress' = Some(m)
               /\ UNCHANGED <<ready, uiImageUrls, labels, clusterDists, isClustering, labelsFrom>>
          [] m.type = "READY" ->
               /\ ready' = TRUE
               /\ uiImageUrls' = Some(m.imageUrls)
               /\ progress' = None
               /\ UNCHANGED <<labels, clusterDists, isClustering, labelsFrom>>
          [] m.type = "CLUSTERS" ->
               IF Accepts(m, runId)
               THEN /\ labels' = Some(m.labels)
                    /\ clusterDists' = DistMap(IF m.colorFamilyDist = None THEN << >>
                                               ELSE Val(m.colorFamilyDist))
                    /\ isClustering' = FALSE
                    /\ progress' = None
                    /\ labelsFrom' = Some([msg |-> m, latest |-> runId])
                    /\ UNCHANGED <<ready, uiImageUrls>>
               ELSE UNCHANGED <<ready, uiImageUrls, progress, labels, clusterDists,
                                isClustering, labelsFrom>>
  /\ UNCHANGED <<windowVars, taxFile, archive, workerVars, initVars, inbox, posted,
                 layer, method, eps, minPts, kMeansK, hasRun, runId, timers,
                 runLog, sent, nChanges, extracted, nBuild>>

Next ==
  \/ HandleInit \/ LoadTaxonomy \/ LoadSamples \/ DecodeImage \/ BuildStep \/ BuildFinish
  \/ HandleRunCluster
  \/ UiReceive \/ ClickRun \/ TimerFires
  \/ SetLayer \/ SetMethod \/ SetEps \/ SetMinPts \/ SetKMeansK

Spec == Init /\ [][Next]_vars

\* ---- the worker alone, with a client that does not wait for READY ----
\* any WorkerMsg of type RUN_CLUSTER may arrive at any time
ClientSends ==
  /\ Len(sent) < MaxRuns
  /\ \E l \in LayerSet, m \in MethodChoices :
       LET req == [type |-> "RUN_CLUSTER", layer |-> l, method |-> m, eps |-> EPS_DEFAULT,
                   minPts |-> MIN_PTS_DEFAULT, k |-> K_DEFAULT, runId |-> Len(sent) + 1]
       IN /\ inbox' = Append(inbox, req)
          /\ sent' = Append(sent, req)
  /\ UNCHANGED <<windowVars, taxFile, archive, workerVars, initVars, outbox, posted, uiVars,
                 runLog, labelsFrom, nChanges, extracted, nBuild>>

NextWorker ==
  \/ HandleInit \/ LoadTaxonomy \/ LoadSamples \/ DecodeImage \/ BuildStep \/ BuildFinish
  \/ HandleRunCluster
  \/ ClientSends

SpecWorker == Init /\ [][NextWorker]_vars

\* ---- the worker asked once, over a wider choice of assets and requests ----
\* a taxonomy of three families, one entry each
TaxFileFamilies ==
  << Row(255, 0, 0, "fire engine red", "red", "red", "red"),
     Row(0, 255, 0, "grass green", "green", "green", "green"),
     Row(0, 0, 255, "royal blue", "blue", "blue", "blue") >>

\* four images of one colour each: 1.jpg and 2.jpg red, 3.jpg green, 4.jpg blue
ArchiveFour ==
  << File(3, TRUE, TRUE, << <<0, 255, 0, Scale>> >>),
     File(1, TRUE, TRUE, << <<255, 0, 0, Scale>> >>),
     File(4, TRUE, TRUE, << <<0, 0, 255, Scale>> >>),
     File(2, TRUE, TRUE, << <<255, 0, 0, Scale>> >>) >>

\* the requests asked: k below, inside and above 1..n; a radius of 0.01, of
\* 0.35, of 1.0, and one beyond every distance two vectors can have (1e9 is
\* held as 10.0), with 1, 2 or 3 neighbours wanted
\* an archive whose members carry no or equal proportions, colours at equal
\* distance from two entries, a name without a number and a non-jpg member
ArchiveTies ==
  << File(12, TRUE, TRUE, << <<0, 0, 0, 8>>, <<255, 0, 0, 4>>, <<230, 0, 0, NaN>> >>),
     File(5, FALSE, TRUE, << <<0, 0, 255, Scale>> >>),
     File(NaN, TRUE, TRUE, << <<128, 128, 0, 8>>, <<0, NaN, 0, 8>>, <<128, 128, 0, 4>> >>),
     File(3, TRUE, TRUE, << >>) >>

\* an archive whose first image, by number, differs from two equal ones
ArchiveThree ==
  << File(2, TRUE, TRUE, << <<255, 0, 0, Scale>> >>),
     File(1, TRUE, TRUE, << <<0, 255, 0, Scale>> >>),
     File(3, TRUE, TRUE, << <<255, 0, 0, Scale>> >>) >>

KProbes == {0, 1, 2, 5}
DensityProbes == {<<1, 1>>, <<1, 2>>, <<35, 3>>, <<100, 2>>, <<1000, 1>>}

RequestProbes ==
  {[type |-> "RUN_CLUSTER", layer |-> l, method |-> "kmeans", eps |-> EPS_DEFAULT,
    minPts |-> MIN_PTS_DEFAULT, k |-> k, runId |-> 1] : l \in LayerSet, k \in KProbes}
  \cup
  {[type |-> "RUN_CLUSTER", layer |-> l, method |-> "dbscan", eps |-> d[1],
    minPts |-> d[2], k |-> K_DEFAULT, runId |-> 1] : l \in LayerSet, d \in DensityProbes}

InitCluster ==
  /\ taxFile \in {TaxFileRGB, TaxFileFamilies}
  /\ archive \in {ArchiveTwo, ArchiveThree, ArchiveFour, ArchiveTies, ArchiveEmpty}
  /\ images = << >> /\ imageUrls = << >> /\ tax = << >>
  /\ ordMaps = None /\ ordLists = None /\ distsCache = None /\ colorFamilyPalette = None
  /\ pc = "idle" /\ kColors = 0 /\ jpgs = << >> /\ loop_i = 0 /\ dists = EmptyDists
  /\ inbox = <<InitMsg>>
  /\ outbox = << >> /\ posted = << >>
  /\ ready = FALSE /\ progress = None /\ labels = None /\ uiImageUrls = None
  /\ isClustering = FALSE /\ clusterDists = << >>
  /\ layer = "xkcd_color" /\ method = "dbscan"
  /\ eps = EPS_DEFAULT /\ minPts = MIN_PTS_DEFAULT /\ kMeansK = K_DEFAULT
  /\ hasRun = FALSE /\ runId = 0 /\ timers = 0
  /\ runLog = << >> /\ sent = << >> /\ labelsFrom = None
  /\ nChanges = 0 /\ extracted = << >> /\ nBuild = 0
  /\ Mounted

\* one RUN_CLUSTER message, at any time
ClientAsks ==
  /\ sent = << >>
  /\ \E req \in RequestProbes :
       /\ inbox' = Append(inbox, req)
       /\ sent' = Append(sent, req)
  /\ UNCHANGED <<windowVars, taxFile, archive, workerVars, initVars, outbox, posted, uiVars,
                 runLog, labelsFrom, nChanges, extracted, nBuild>>

NextCluster ==
  \/ HandleInit \/ LoadTaxonomy \/ LoadSamples \/ DecodeImage \/ BuildStep \/ BuildFinish
  \/ HandleRunCluster
  \/ ClientAsks

SpecCluster == InitCluster /\ [][NextCluster]_vars

\* ---- INIT alone, on many taxonomy tables ----
\* rows a /colornamer.json may hold: two entries of one colour, entries that
\* share the names of the coarser levels, a malformed row
TaxRows ==
  { Row(255, 0, 0, "red", "red", "red", "red"),
    Row(255, 0, 0, "scarlet", "red", "red", "red"),
    Row(200, 0, 0, "crimson", "dark red", "red", "red"),
    Row(0, 255, 0, "green", "green", "green", "green"),
    Row(0, 0, 255, "blue", "blue", "blue", "blue"),
    Row(NaN, 0, 0, "void", "void", "void", "void") }
TaxTables == UNION {[1..n -> TaxRows] : n \in 0..MaxRows}

\* an archive for which colorgram returns a channel above 255 and an
\* infinite channel
ArchiveOdd ==
  << File(1, TRUE, TRUE, << <<255, 0, 0, 8>>, <<300, 0, 0, 4>> >>),
     File(2, TRUE, TRUE, << <<0, 255, 0, 8>>, <<Infinity, 0, 0, 4>> >>) >>
BuildArchives == {ArchiveTwo, ArchiveFour, ArchiveTies, ArchiveOdd, ArchiveBroken, ArchiveEmpty}

InitBuild ==
  /\ taxFile \in TaxTables
  /\ archive \in BuildArchives
  /\ images = << >> /\ imageUrls = << >> /\ tax = << >>
  /\ ordMaps = None /\ ordLists = None /\ distsCache = None /\ colorFamilyPalette = None
  /\ pc = "idle" /\ kColors = 0 /\ jpgs = << >> /\ loop_i = 0 /\ dists = EmptyDists
  /\ inbox = <<InitMsg>>
  /\ outbox = << >> /\ posted = << >>
  /\ ready = FALSE /\ progress = None /\ labels = None /\ uiImageUrls = None
  /\ isClustering = FALSE /\ clusterDists = << >>
  /\ layer = "xkcd_color" /\ method = "dbscan"
  /\ eps = EPS_DEFAULT /\ minPts = MIN_PTS_DEFAULT /\ kMeansK = K_DEFAULT
  /\ hasRun = FALSE /\ runId = 0 /\ timers = 0
  /\ runLog = << >> /\ sent = << >> /\ labelsFrom = None
  /\ nChanges = 0 /\ extracted = << >> /\ nBuild = 0
  /\ Mounted

NextBuild ==
  \/ HandleInit \/ LoadTaxonomy \/ LoadSamples \/ DecodeImage \/ BuildStep \/ BuildFinish

SpecBuild == InitBuild /\ [][NextBuild]_vars

\* ---- one window alone, dragged, resized, raised and arranged ----
InitWindow ==
  /\ Init
  /\ taxFile = TaxFileRGB
  /\ archive = ArchiveEmpty

NextWindow ==
  \/ DragMove \/ ResizeMove \/ FlushFrame
  \/ BringToFront \/ Arrange \/ SetZoom

SpecWindow == InitWindow /\ [][NextWindow]_vars

\* ---- properties ----
ReadyIndices == {n \in 1..Len(posted) : posted[n].type = "READY"}
IsFailure(m, stage) ==
  /\ m.type = "PROGRESS"
  /\ Len(m.phase) = 3
  /\ m.phase[1] = stage
  /\ m.phase[2] = " failed: "
\* the step is the handling of one RUN_CLUSTER request
RunHandled == Len(runLog') = Len(runLog) + 1
Answered(n) == runLog[n].out <= Len(posted)

\* C1: READY is posted only once the distribution cache of the corpus has
\* been built, and at most one READY is posted per INIT.
C1_ReadyOnlyAfterCacheBuilt ==
  /\ ReadyIndices # {} => distsCache # None
  /\ Cardinality(ReadyIndices) <= 1

\* C2: the UI sends RUN_CLUSTER only after it has received READY, and the
\* worker never starts processing a RUN_CLUSTER while the cache is absent.
C2_NoRunWhileCacheAbsent ==
  /\ sent # << >> => ready
  /\ \A n \in 1..Len(runLog) : runLog[n].cache

\* C3: every CLUSTERS message is the answer to one handled RUN_CLUSTER
\* request and carries that request's runId and layer.
C3_ClustersEchoRequest ==
  /\ \A n \in 1..Len(runLog) :
       runLog[n].cache =>
         /\ Answered(n)
         /\ posted[runLog[n].out].type = "CLUSTERS"
         /\ "runId" \in DOMAIN posted[runLog[n].out]
         /\ posted[runLog[n].out].runId = runLog[n].req.runId
         /\ posted[runLog[n].out].layer = runLog[n].req.layer
  /\ \A x \in 1..Len(posted) :
       posted[x].type = "CLUSTERS" =>
         Cardinality({n \in 1..Len(runLog) : runLog[n].out = x}) = 1
C3_TwoLayersAnswered ==
  \E a, b \in 1..Len(runLog) :
     /\ a < b /\ runLog[a].cache /\ runLog[b].cache
     /\ runLog[a].req.layer # runLog[b].req.layer
     /\ posted[runLog[b].out].type = "CLUSTERS"

\* C4: the labels and cluster distributions the UI holds come from a
\* CLUSTERS message whose runId was the latest issued run id when it was
\* received, and a CLUSTERS message with an older runId changes neither the
\* labels, nor the cluster distributions, nor isClustering.
C4_LabelsFromLatestRun ==
  /\ labels # None => labelsFrom # None
  /\ labelsFrom # None =>
       LET m == Val(labelsFrom).msg
       IN /\ m.type = "CLUSTERS"
          /\ m.runId = Val(labelsFrom).latest
          /\ labels = Some(m.labels)
          /\ clusterDists = DistMap(IF m.colorFamilyDist = None THEN << >>
                                    ELSE Val(m.colorFamilyDist))
C4_StaleResultIgnored ==
  /\ []C4_LabelsFromLatestRun
  /\ [][(/\ outbox # << >> /\ outbox' = Tail(outbox)
         /\ Head(outbox).type = "CLUSTERS"
         /\ Head(outbox).runId < runId)
        => UNCHANGED <<labels, clusterDists, isClustering>>]_vars
C4_StaleResultDropped ==
  /\ labels = None /\ isClustering
  /\ \E n \in 1..delivered : posted[n].type = "CLUSTERS" /\ posted[n].runId < runId

\* C5: the n-th RUN_CLUSTER request the UI sends carries run id n.
C5_RunIdsCountUp ==
  /\ \A n \in 1..Len(sent) : sent[n].runId = n
  /\ runId = Len(sent)
C5_TwoRequestsSent == Len(sent) >= 2 /\ hasRun

\* C6: a RUN_CLUSTER handled while the cache is absent is answered by the
\* failure PROGRESS message alone and changes no worker state; one handled
\* when the cache is built is answered by a CLUSTERS message.
C6_CacheAbsentFailsOneRequest ==
  /\ [](\A n \in 1..Len(runLog) :
          /\ Answered(n)
          /\ IF runLog[n].cache
             THEN posted[runLog[n].out].type = "CLUSTERS"
             ELSE posted[runLog[n].out] = FailMsg("cluster", CACHE_EMPTY))
  /\ [][RunHandled /\ distsCache = None
        => /\ UNCHANGED <<workerVars, initVars>>
           /\ Len(posted') = Len(posted) + 1]_vars
C6_FailedThenServed ==
  \E a, b \in 1..Len(runLog) :
     /\ a < b /\ ~runLog[a].cache /\ runLog[b].cache
     /\ posted[runLog[b].out].type = "CLUSTERS"
     /\ IsFailure(posted[runLog[a].out], "cluster")

\* C7: a failed INIT has posted an 'init failed: ...' PROGRESS message and a
\* failed RUN_CLUSTER a 'cluster failed: ...' one.
C7_FailureIsPosted ==
  /\ pc = "failed" => \E n \in 1..Len(posted) : IsFailure(posted[n], "init")
  /\ \A n \in 1..Len(runLog) :
       ~runLog[n].cache => Answered(n) /\ IsFailure(posted[runLog[n].out], "cluster")
C7_BothKindsFailed ==
  /\ pc = "failed"
  /\ \E n \in 1..Len(runLog) : ~runLog[n].cache

\* C8: after a failed INIT the taxonomy table, the ordinal maps, the image
\* list, the URL list and the distribution cache hold nothing.
C8_NoPartialInit ==
  pc = "failed" =>
    /\ tax = << >> /\ ordMaps = None /\ ordLists = None
    /\ images = << >> /\ imageUrls = << >>
    /\ distsCache = None

\* C9: handling a RUN_CLUSTER request leaves the distribution cache, the
\* taxonomy table, the ordinal maps, the family palette and the image list
\* unchanged; the cache keeps the vectors buildDistributions produced.
C9_RunLeavesCachesUnchanged ==
  /\ [](pc = "done" => distsCache = Some(dists))
  /\ [][RunHandled => UNCHANGED <<distsCache, tax, ordMaps, ordLists,
                                  colorFamilyPalette, images, imageUrls>>]_vars
C9_RootsDifferFromCache ==
  /\ Len(runLog) >= 2
  /\ \A n \in 1..Len(runLog) : runLog[n].cache
  /\ \E n \in 1..Len(runLog) :
       LET key == runLog[n].req.layer
       IN \E x \in 1..Len(dists[key]) : \E j \in 1..Len(dists[key][x]) :
            Sqrt(dists[key][x][j]) # dists[key][x][j]

\* C10: buildDistributions is called at most once, exactly once when the
\* corpus was loaded; it extracts the palette of each image once, in image
\* order; and handling a RUN_CLUSTER request extracts no palette and builds
\* nothing.
C10_PalettesExtractedOnce ==
  /\ [](/\ nBuild <= 1
        /\ (ReadyIndices # {} <=> nBuild = 1)
        /\ \A a, b \in 1..Len(extracted) : a # b => extracted[a] # extracted[b]
        /\ pc = "done" => extracted = [n \in 1..Len(images) |-> n - 1])
  /\ [][RunHandled => UNCHANGED <<extracted, nBuild, dists>>]_vars
C10_RunsAfterBuild ==
  /\ pc = "done" /\ Len(images) >= 2
  /\ Len(runLog) >= 2
  /\ \A n \in 1..Len(runLog) : runLog[n].cache

\* ---- the answer to a request ----
\* the message posted for the n-th handled request, while it is in the outbox
Reply(n) == outbox[runLog[n].out - delivered]
Served(n) == runLog[n].cache /\ runLog[n].out > delivered
ReadyMsg == posted[CHOOSE r \in ReadyIndices : TRUE]

\* C11: a CLUSTERS message holds one label per image of the corpus (as many
\* as READY announced); the label of image i is c - 1 when the c-th cluster
\* returned holds i, and -1 when none does; no image is in two clusters.
C11_OneLabelPerImage ==
  \A n \in 1..Len(runLog) :
     Served(n) =>
       LET labs == Reply(n).labels
           cl == runLog[n].clusters
       IN /\ Reply(n).type = "CLUSTERS"
          /\ ReadyIndices # {}
          /\ Len(labs) = ReadyMsg.nImages
          /\ Len(labs) = Len(images)
          /\ \A x \in 1..Len(labs) :
               /\ labs[x] = -1 \/ labs[x] \in 0..(Len(cl) - 1)
               /\ \A c \in 1..Len(cl) : ((x - 1) \in cl[c]) <=> (labs[x] = c - 1)
          /\ \A a, b \in 1..Len(cl) : a # b => cl[a] \cap cl[b] = {}
C11_NoiseAndClusters ==
  \E n \in 1..Len(runLog) :
     /\ Served(n) /\ Len(Reply(n).labels) = 4
     /\ Len(runLog[n].clusters) = 1
     /\ \E x, y, z \in 1..4 :
          /\ x # y /\ Reply(n).labels[x] = 0 /\ Reply(n).labels[y] = 0
          /\ Reply(n).labels[z] = -1

\* C12: in kmeans mode every image gets a cluster: no label of the reply is
\* -1, whatever the corpus and the requested k.
C12_KMeansLabelsNonNegative ==
  \A n \in 1..Len(runLog) :
     (Served(n) /\ runLog[n].req.method = "kmeans") =>
        /\ Reply(n).type = "CLUSTERS"
        /\ \A x \in 1..Len(Reply(n).labels) : Reply(n).labels[x] >= 0

C12_KMeansFourImages ==
  \E n \in 1..Len(runLog) :
     /\ Served(n) /\ runLog[n].req.method = "kmeans"
     /\ Len(Reply(n).labels) = 4
     /\ \E x, y \in 1..4 : Reply(n).labels[x] = 0 /\ Reply(n).labels[y] = 3

\* C13: the k handed to the kmeans algorithm is the requested k clamped to
\* the number of images n: a k inside 1..n is passed as it is, a k below 1
\* as 1 is, a k above n as n is (1 when there is no image); such a request
\* is answered with CLUSTERS, not with a failure.
C13_RequestedKClamped ==
  \A n \in 1..Len(runLog) :
     (Served(n) /\ runLog[n].req.method = "kmeans") =>
        LET k == runLog[n].req.k
            nImg == Len(images)
            passed == Len(runLog[n].clusters)
            asOne == 1
            asN == IF nImg < 1 THEN asOne ELSE nImg
        IN /\ Reply(n).type = "CLUSTERS"
           /\ (k >= 1 /\ k <= nImg) => passed = k
           /\ k < 1 => passed = asOne
           /\ k > nImg => passed = asN

C13_KAboveAndBelow ==
  \E n \in 1..Len(runLog) :
     /\ Served(n) /\ runLog[n].req.method = "kmeans"
     /\ Len(images) = 2
     /\ \/ runLog[n].req.k = 5 /\ Len(runLog[n].clusters) = 2
        \/ runLog[n].req.k = 0 /\ Len(runLog[n].clusters) = 1

\* the vectors a handled request was clustered on
VectorsOf(n) == SqrtTransform(Val(distsCache), runLog[n].req.layer).out
NearZero(n) == Served(n) /\ runLog[n].req.method = "dbscan" /\ runLog[n].req.eps = 1

\* C14 as stated: density clustering with a radius close to 0 (0.01) labels
\* every image -1, for every corpus and every min-neighbors value.
C14_RadiusZeroAllNoise ==
  \A n \in 1..Len(runLog) :
     NearZero(n) => \A x \in 1..Len(Reply(n).labels) : Reply(n).labels[x] = -1

\* C14 amended: with a radius close to 0, below the distance between any two
\* different vectors, an image is labelled -1 exactly when fewer than
\* min-neighbors images, itself counted, have its vector.
C14_NoiseBelowMinNeighbors ==
  \A n \in 1..Len(runLog) :
     NearZero(n) =>
        LET labs == Reply(n).labels
            vecs == VectorsOf(n)
        IN /\ Len(labs) = Len(vecs)
           /\ \A x \in 1..Len(labs) :
                 (labs[x] = -1) <=>
                    Cardinality({y \in 1..Len(vecs) : vecs[y] = vecs[x]}) < runLog[n].req.minPts

C14_PairKeptSinglesNoise ==
  \E n \in 1..Len(runLog) :
     /\ NearZero(n) /\ runLog[n].req.minPts = 2
     /\ \E x, y \in 1..Len(Reply(n).labels) :
           Reply(n).labels[x] = -1 /\ Reply(n).labels[y] = 0

\* C15: density clustering with a huge radius and min-neighbors 1 puts every
\* image of a non-empty corpus into one single cluster: all labels are equal
\* and non-negative.
C15_HugeRadiusOneCluster ==
  \A n \in 1..Len(runLog) :
     (/\ Served(n) /\ runLog[n].req.method = "dbscan"
      /\ runLog[n].req.eps = 1000 /\ runLog[n].req.minPts = 1
      /\ Len(images) >= 1) =>
        LET labs == Reply(n).labels
        IN /\ Reply(n).type = "CLUSTERS"
           /\ Len(labs) = Len(images)
           /\ \A x \in 1..Len(labs) : labs[x] = labs[1] /\ labs[x] >= 0

C15_FourDifferentMerged ==
  \E n \in 1..Len(runLog) :
     /\ Served(n) /\ runLog[n].req.method = "dbscan"
     /\ runLog[n].req.eps = 1000 /\ runLog[n].req.minPts = 1
     /\ Len(Reply(n).labels) = 4
     /\ \E x, y \in 1..4 : VectorsOf(n)[x] # VectorsOf(n)[y]
     /\ \A x \in 1..4 : Reply(n).labels[x] = 0

\* the end-to-end scenario: families red, green and blue, images red, red,
\* green, blue, density clustering on the family level, radius 0.01 and
\* min-neighbors 1
Scenario(n) ==
  /\ Served(n) /\ taxFile = TaxFileFamilies /\ archive = ArchiveFour
  /\ runLog[n].req.method = "dbscan" /\ runLog[n].req.layer = "color_family"
  /\ runLog[n].req.eps = 1 /\ runLog[n].req.minPts = 1

\* C16: in the end-to-end scenario the two red images get the same
\* non-negative label, the green and the blue image each get a label that
\* differs from the red pair's and from each other's (a cluster of their own
\* or -1), and the summary entry of the red cluster is the single part red
\* with fraction 1.
C16_EndToEndScenario ==
  \A n \in 1..Len(runLog) :
     Scenario(n) =>
        LET labs == Reply(n).labels
            dist == Reply(n).colorFamilyDist
        IN /\ Reply(n).type = "CLUSTERS" /\ Len(labs) = 4
           /\ labs[1] = labs[2] /\ labs[1] >= 0
           /\ labs[3] # labs[1] /\ labs[4] # labs[1] /\ labs[3] # labs[4]
           /\ \A c \in {3, 4} :
                 labs[c] = -1 \/ \A x \in 1..4 : labs[x] = labs[c] => x = c
           /\ dist # None
           /\ Cardinality({m \in 1..Len(Val(dist)) : Val(dist)[m].id = labs[1]}) = 1
           /\ \A m \in 1..Len(Val(dist)) :
                 Val(dist)[m].id = labs[1] =>
                    LET parts == Val(dist)[m].parts
                    IN /\ Len(parts) = 1
                       /\ parts[1].name = "red"
                       /\ parts[1].pct[2] > 0 /\ parts[1].pct[1] = parts[1].pct[2]

C16_RedPairGreenBlue ==
  \E n \in 1..Len(runLog) :
     /\ Scenario(n)
     /\ Reply(n).labels = <<0, 0, 1, 2>>
     /\ Len(Val(Reply(n).colorFamilyDist)) = 3

\* the colours nearestTaxonomy is asked about: a grid, tried on the table
\* loadTaxonomy has just installed, and the palette colours of the images
\* processed so far
ChannelProbes == {0, 128, 255}
QueryProbes ==
  {<<r, g, b>> : r \in ChannelProbes, g \in ChannelProbes, b \in ChannelProbes}
GridQueries == IF pc = "loadSamples" THEN QueryProbes ELSE {}
PaletteQueries ==
  UNION { LET pal == extractPalette(images[i], kColors)
          IN {pal[c].rgb : c \in 1..Len(pal)} : i \in 1..Len(dists.xkcd_color) }
\* the indices of the entries of t at minimal squared distance from q
Closest(t, q) ==
  {n \in 1..Len(t) : \A m \in 1..Len(t) : Dist2(q, t[n].rgb) <= Dist2(q, t[m].rgb)}

\* C17: on a non-empty table nearestTaxonomy returns, for every valid colour,
\* an entry at minimal squared distance from it, and among several such
\* entries the one that comes first in the table.
C17_NearestIsFirstMinimum ==
  \A q \in GridQueries \cup PaletteQueries :
     tax # << >> =>
        LET first == CHOOSE n \in Closest(tax, q) : \A m \in Closest(tax, q) : n <= m
        IN /\ ~nearestThrows(tax, q)
           /\ nearestTaxonomy(tax, q) = tax[first]

C17_TieInPalette ==
  /\ pc = "done"
  /\ \E q \in PaletteQueries :
       \E a, b \in Closest(tax, q) :
          /\ a < b /\ tax[a].xkcd_color # tax[b].xkcd_color
          /\ nearestTaxonomy(tax, q) = tax[a]

\* the names of a level and the row a name is first seen in
NamesAt(key) == {tax[n][key] : n \in 1..Len(tax)}
FirstRow(key, name) ==
  CHOOSE n \in 1..Len(tax) : tax[n][key] = name /\ \A m \in 1..(n - 1) : tax[m][key] # name

\* C18: at each of the four levels the ordinal map is a bijection between
\* the distinct names of the table and 0..n-1, a name seen earlier getting
\* the smaller index, and the index-to-name list is its inverse.
C18_OrdinalBijection ==
  ordMaps # None =>
     /\ ordLists # None
     /\ \A key \in LayerSet :
           LET m == Val(ordMaps)[key]
               l == Val(ordLists)[key]
               n == Cardinality(NamesAt(key))
           IN /\ DOMAIN m = NamesAt(key)
              /\ {m[x] : x \in DOMAIN m} = 0..(n - 1)
              /\ \A x, y \in DOMAIN m : m[x] = m[y] => x = y
              /\ \A x, y \in DOMAIN m :
                    (m[x] < m[y]) <=> (FirstRow(key, x) < FirstRow(key, y))
              /\ Len(l) = n
              /\ \A x \in DOMAIN m : l[m[x] + 1] = x
              /\ \A j \in 1..n : m[l[j]] = j - 1

C18_RepeatedNameBeforeNew ==
  /\ ordMaps # None /\ Len(tax) = 3
  /\ \E key \in LayerSet :
       /\ tax[1][key] = tax[2][key] /\ tax[3][key] # tax[1][key]
       /\ Val(ordMaps)[key][tax[3][key]] = 1
       /\ Val(ordLists)[key] = <<tax[1][key], tax[3][key]>>

\* the entries colorgram returned for an image that have three numeric
\* channels, and the sum of their proportions (a non-numeric one counts as 0)
ValidEntries(bmp) ==
  {c \in 1..Min(kColors, Len(bmp.stats)) : \A n \in 1..3 : IsNumber(bmp.stats[c][n])}
RECURSIVE SumOver(_, _)
SumOver(st, cs) ==
  IF cs = {} THEN 0
  ELSE LET c == CHOOSE x \in cs : TRUE
       IN (IF IsFinite(st[c][4]) THEN st[c][4] ELSE 0) + SumOver(st, cs \ {c})
ValidProportions(bmp) == SumOver(bmp.stats, ValidEntries(bmp))

MemberOf(url) == CHOOSE n \in 1..Len(archive) : archive[n].jpg /\ UrlOf(archive[n]) = url

\* C20: after a successful INIT the cache holds, at each level, one vector
\* per decoded image, at the index of the image's URL in READY's imageUrls;
\* the images follow the number in their file name (a name without a number
\* counts as 0), and a vector is as long as the level has distinct names.
C20_CacheFollowsImageOrder ==
  distsCache # None =>
     /\ ReadyIndices # {}
     /\ LET urls == ReadyMsg.imageUrls
        IN /\ Len(urls) = Len(images) /\ ReadyMsg.nImages = Len(images)
           /\ Len(images) = Cardinality({n \in 1..Len(archive) : archive[n].jpg})
           /\ \A i \in 1..Len(urls) :
                 \E n \in 1..Len(archive) : archive[n].jpg /\ UrlOf(archive[n]) = urls[i]
           /\ \A i, j \in 1..Len(urls) :
                 i < j => /\ MemberOf(urls[i]) # MemberOf(urls[j])
                          /\ SortKey(archive[MemberOf(urls[i])]) <= SortKey(archive[MemberOf(urls[j])])
           /\ \A key \in LayerSet :
                 /\ Len(Val(distsCache)[key]) = Len(images)
                 /\ \A i \in 1..Len(urls) :
                       LET f == archive[MemberOf(urls[i])]
                           v == Val(distsCache)[key][i]
                       IN /\ f.decodes
                          /\ Len(v) = Cardinality(NamesAt(key))
                          /\ v = ImageVector(tax, Val(ordMaps),
                                             extractPalette(Bitmap(f), kColors), key)

C20_ArchiveOrderDiffers ==
  /\ distsCache # None /\ Len(images) >= 3
  /\ archive[1].jpg /\ UrlOf(archive[1]) # ReadyMsg.imageUrls[1]
  /\ Val(distsCache).xkcd_color[1] # Val(distsCache).xkcd_color[3]
  /\ Len(Val(distsCache).xkcd_color[1]) >= 2
  /\ Len(Val(distsCache).color_family[1]) < Len(Val(distsCache).xkcd_color[1])

\* the entries colorgram returned for an image whose channels are finite
\* and within 0..255
InRange(v) == IsFinite(v) /\ v >= 0 /\ v <= 255
GoodEntries(bmp) ==
  {c \in 1..Min(kColors, Len(bmp.stats)) : \A n \in 1..3 : InRange(bmp.stats[c][n])}

\* C21: a palette entry with a non-finite or out-of-range channel is
\* dropped: the vectors of its image hold the proportions of the other
\* entries only, and INIT does not fail because of it (the build fails only
\* when the table is empty).
C21_BadEntriesDropped ==
  /\ \A key \in LayerSet : \A i \in 1..Len(dists[key]) :
        SumSeq(dists[key][i]) = SumOver(images[i].stats, GoodEntries(images[i]))
  /\ (pc = "failed" /\ nBuild > 0) => Len(tax) = 0

\* the family summary of a reply, and the family vectors it was made from
Summary(n) == Reply(n).colorFamilyDist
Summarised(n) == Served(n) /\ Reply(n).type = "CLUSTERS" /\ Summary(n) # None
FamVecs == Val(distsCache).color_family
FamIndex(name) ==
  CHOOSE j \in 1..Len(Val(ordLists).color_family) : Val(ordLists).color_family[j] = name
\* the weight of family j among the first m images labelled id
RECURSIVE FamWeight(_, _, _, _)
FamWeight(labs, id, j, m) ==
  IF m = 0 THEN 0
  ELSE FamWeight(labs, id, j, m - 1) + (IF labs[m] = id THEN FamVecs[m][j] ELSE 0)
RECURSIVE LabelTotal(_, _, _)
LabelTotal(labs, id, j) ==
  IF j = 0 THEN 0 ELSE LabelTotal(labs, id, j - 1) + FamWeight(labs, id, j, Len(labs))
RECURSIVE Numerators(_)
Numerators(parts) ==
  IF parts = << >> THEN 0 ELSE Numerators(Front(parts)) + Last(parts).pct[1]

\* C22: in every entry of the family summary the fractions of the parts sum
\* to 1 and every fraction is strictly positive.
C22_FractionsSumToOne ==
  \A n \in 1..Len(runLog) :
     Summarised(n) =>
        \A m \in 1..Len(Val(Summary(n))) :
           LET parts == Val(Summary(n))[m].parts
           IN /\ Len(parts) >= 1
              /\ \A k \in 1..Len(parts) :
                    /\ parts[k].pct[2] > 0 /\ parts[k].pct[1] > 0
                    /\ parts[k].pct[2] = parts[1].pct[2]
              /\ Numerators(parts) = parts[1].pct[2]

C22_EntryOfThreeParts ==
  \E n \in 1..Len(runLog) :
     /\ Summarised(n)
     /\ \E m \in 1..Len(Val(Summary(n))) :
           /\ Len(Val(Summary(n))[m].parts) = 3
           /\ Val(Summary(n))[m].parts[3].pct[1] < Val(Summary(n))[m].parts[1].pct[1]

\* C23: the summary adds the family vector of every image to the
\* accumulator of the image's label; it has exactly one entry for each label
\* of the label vector whose total is above 0, none for a label whose total
\* is 0 or less, and none for an id that is not a label.
C23_OneEntryPerWeightedLabel ==
  \A n \in 1..Len(runLog) :
     Summarised(n) =>
        LET labs == Reply(n).labels
            sm == Val(Summary(n))
            ids == {labs[x] : x \in 1..Len(labs)}
            nDims == Len(FamVecs[1])
        IN /\ \A m \in 1..Len(sm) : sm[m].id \in ids
           /\ \A id \in ids :
                 Cardinality({m \in 1..Len(sm) : sm[m].id = id})
                    = IF LabelTotal(labs, id, nDims) > 0 THEN 1 ELSE 0
           /\ \A m \in 1..Len(sm) : \A k \in 1..Len(sm[m].parts) :
                 LET part == sm[m].parts[k]
                 IN /\ part.pct[2] = LabelTotal(labs, sm[m].id, nDims)
                    /\ part.pct[1] = FamWeight(labs, sm[m].id, FamIndex(part.name), Len(labs))
           /\ \A m \in 1..Len(sm) : \A j \in 1..nDims :
                 FamWeight(labs, sm[m].id, j, Len(labs)) > 0 =>
                    \E k \in 1..Len(sm[m].parts) : FamIndex(sm[m].parts[k].name) = j

C23_LabelWithoutWeight ==
  \E n \in 1..Len(runLog) :
     /\ Summarised(n)
     /\ Len(Val(Summary(n))) >= 2
     /\ \E x \in 1..Len(Reply(n).labels) :
           /\ LabelTotal(Reply(n).labels, Reply(n).labels[x], Len(FamVecs[1])) = 0
           /\ \A m \in 1..Len(Val(Summary(n))) : Val(Summary(n))[m].id # Reply(n).labels[x]

\* the rows of the table that belong to a family, and the hex of their
\* average colour
FamilyRows(name) == {r \in 1..Len(tax) : tax[r].color_family = name}
RECURSIVE ChannelSum(_, _)
ChannelSum(rows, ch) ==
  IF rows = {} THEN 0
  ELSE LET r == CHOOSE x \in rows : TRUE
       IN tax[r].rgb[ch] + ChannelSum(rows \ {r}, ch)
Representative(name) ==
  LET rows == FamilyRows(name)
  IN rgbToHex([ch \in 1..3 |-> <<ChannelSum(rows, ch), Cardinality(rows)>>])

\* C24: in every summary entry the parts are in order of non-increasing
\* fraction; the name of a part is the family name at the ordinal whose
\* weight it carries, and its colour is the hex of the average RGB of the
\* table entries of that family, or gray when the family has none.
C24_PartsSortedNamedColoured ==
  \A n \in 1..Len(runLog) :
     Summarised(n) =>
        \A m \in 1..Len(Val(Summary(n))) :
           LET parts == Val(Summary(n))[m].parts
               id == Val(Summary(n))[m].id
               famList == Val(ordLists).color_family
           IN /\ \A k \in 1..(Len(parts) - 1) : parts[k].pct[1] >= parts[k + 1].pct[1]
              /\ \A k \in 1..Len(parts) :
                    \E j \in 1..Len(famList) :
                       /\ parts[k].name = famList[j]
                       /\ parts[k].pct[1] = FamWeight(Reply(n).labels, id, j, Len(Reply(n).labels))
                       /\ parts[k].color = IF FamilyRows(famList[j]) # {}
                                           THEN Representative(famList[j]) ELSE GRAY

C24_AveragedColourFirst ==
  \E n \in 1..Len(runLog) :
     /\ Summarised(n)
     /\ \E m \in 1..Len(Val(Summary(n))) :
           LET parts == Val(Summary(n))[m].parts
           IN /\ Len(parts) >= 2
              /\ parts[1].pct[1] > parts[2].pct[1]
              /\ parts[1].name = "red"
              /\ parts[1].color = <<"#", "e", "4", "0", "0", "0", "0">>

\* C25: automatic re-clustering is debounced: a parameter change cancels the
\* timer of the change before it, so at most one timer is pending at any
\* time and a burst of changes sends one request; before the first manual
\* run no timer is set and no request is sent.
C25_OneTimerPending ==
  /\ timers <= 1
  /\ ~hasRun => (timers = 0 /\ sent = << >>)

\* C27: a run request that made isClustering true is followed, once the
\* worker has handled every message and the UI every answer, by isClustering
\* being false again: the UI is never left waiting with nothing in flight.
C27_NeverLeftClustering ==
  ~(/\ isClustering
    /\ inbox = << >> /\ outbox = << >> /\ timers = 0
    /\ pc \in {"done", "failed"})

\* C29: a click on Run that no parameter change follows sends exactly one
\* request: while no parameter was changed, a second request is sent only by
\* a second click, which the button allows once a result has been taken.
C29_OneRequestPerClick ==
  (nChanges = 0 /\ Len(sent) >= 2) => labelsFrom # None

\* C26: the groups the UI makes of a label vector partition the image
\* indices: every index is in exactly one group, the group of its label,
\* in ascending order; the groups are in ascending order of label, the
\* noise group (-1) last.
C26_GroupsPartitionIndices ==
  \A n \in 1..Len(runLog) :
     (Served(n) /\ Reply(n).type = "CLUSTERS") =>
        LET labs == Reply(n).labels
            gs == groups(labs)
        IN /\ \A x \in 1..Len(labs) :
                 Cardinality({<<g, k>> \in (1..Len(gs)) \X (1..Len(labs)) :
                                 k <= Len(gs[g][2]) /\ gs[g][2][k] = x - 1}) = 1
           /\ \A g \in 1..Len(gs) :
                 /\ Len(gs[g][2]) >= 1
                 /\ \A k \in 1..Len(gs[g][2]) :
                       /\ gs[g][2][k] \in 0..(Len(labs) - 1)
                       /\ labs[gs[g][2][k] + 1] = gs[g][1]
                 /\ \A k \in 1..(Len(gs[g][2]) - 1) : gs[g][2][k] < gs[g][2][k + 1]
           /\ \A g, h \in 1..Len(gs) :
                 g < h => /\ gs[g][1] # -1
                          /\ gs[h][1] = -1 \/ gs[g][1] < gs[h][1]

C26_NoiseMetFirst ==
  \E n \in 1..Len(runLog) :
     /\ Served(n) /\ Reply(n).type = "CLUSTERS"
     /\ Len(Reply(n).labels) >= 3
     /\ Reply(n).labels[1] = -1
     /\ Len(groups(Reply(n).labels)) = 2
     /\ groups(Reply(n).labels)[2][1] = -1

\* the positions of the CLUSTERS messages among the posted messages
ClustersIndices == {p \in 1..Len(posted) : posted[p].type = "CLUSTERS"}

\* C28: the worker answers the RUN_CLUSTER requests in the order it receives
\* them: the n-th request handled is the n-th one sent, a request gets at
\* most one CLUSTERS message, and the CLUSTERS message of an earlier request
\* is posted before that of a later one, also for requests handled while
\* INIT is in progress.
C28_AnsweredInOrder ==
  /\ Len(runLog) <= Len(sent)
  /\ \A n \in 1..Len(runLog) :
        /\ runLog[n].req = sent[n]
        /\ n > 1 => runLog[n - 1].out < runLog[n].out
  /\ \A p \in ClustersIndices :
        \E n \in 1..Len(runLog) :
           /\ runLog[n].out = p /\ runLog[n].cache
           /\ posted[p].runId = sent[n].runId
  /\ \A p, q \in ClustersIndices : p < q => posted[p].runId < posted[q].runId

C28_SecondAnsweredAfterFirstFailed ==
  /\ Len(runLog) = 2
  /\ ~runLog[1].cache /\ runLog[2].cache
  /\ Len(inbox) = 0
  /\ ClustersIndices = {runLog[2].out}

\* C30: drag and resize deltas are neither lost nor applied twice: once no
\* frame is scheduled, x, y, width and height of the placement are their
\* values before the gesture plus the sum of the move events' deltas (each
\* over the zoom at its event), also when the placement was changed from
\* another source between a move event and the flush; at most one flush is
\* scheduled at a time.
C30_DeltasAppliedOnce ==
  /\ frames <= 1
  /\ frames = 0 =>
       \A f \in DOMAIN origin : placement[f] = origin[f] + travelled[f]

====
